---- MODULE Spec2Model ----
(***************************************************************************)
(* HeyPico: one chat turn, from the browser's sendMessage through the      *)
(* client's streamChat, the POST /api/chat handler and the orchestrator    *)
(* streamChatWithTools, with its three collaborators (intent extraction,   *)
(* place search, narration).                                               *)
(***************************************************************************)
EXTENDS Integers, Sequences, FiniteSets, TLC

(* ---------------------------------------------------------------- bounds *)

\* Largest number of records the places provider returns in the model.
MaxPlaces == 2
\* Largest number of newline-delimited frames in one narration stream.
MaxFrames == 2

(* ------------------------------------------------------------ JS values  *)

\* JavaScript's undefined, for a string-valued property that is absent.
Undefined == "<undefined>"
NoData == << >>

\* A JSON object with the keys the chat protocol uses; an absent key holds
\* Undefined (data: NoData), which is also what JSON.stringify drops.
EmptyObj == [type |-> Undefined, data |-> NoData, content |-> Undefined, error |-> Undefined]

\* A value passed to a callback or written on the wire:
\*   k = "str"   the string s
\*   k = "json"  the string JSON.stringify(obj)
\*   k = "err"   an Error object whose message is s
Str(s) == [k |-> "str", s |-> s, obj |-> EmptyObj]
ErrorObj(s) == [k |-> "err", s |-> s, obj |-> EmptyObj]

\* JSON.stringify(obj): keys whose value is undefined are omitted, which in
\* this representation leaves them Undefined.
JSONstringify(obj) == [k |-> "json", s |-> "", obj |-> obj]

\* JSON.parse(text): ok is FALSE where JSON.parse throws.
JSONparse(text) ==
  IF text.k = "json" THEN [ok |-> TRUE, obj |-> text.obj]
  ELSE [ok |-> FALSE, obj |-> EmptyObj]

\* x.message for a value x: defined for Error objects only; a string
\* primitive has no message property.
MessageOf(x) == IF x.k = "err" THEN x.s ELSE Undefined

\* JavaScript truthiness of a string-valued property.
Truthy(s) == s # Undefined /\ s # ""

\* chunk.startsWith('{"type":'): true of the serialisation of an object
\* whose first key is type.
StartsWithType(chunk) == chunk.k = "json" /\ chunk.obj.type # Undefined

PlacesEvent(places) ==
  JSONstringify([EmptyObj EXCEPT !.type = "places", !.data = places])

(* ------------------------------------------------------- chat messages   *)

UserMsg(c) == [role |-> "user", content |-> c]
AsstMsg(c) == [role |-> "assistant", content |-> c]

\* messages.filter(m => m.role === "user")
RECURSIVE FilterUser(_)
FilterUser(ms) ==
  IF ms = << >> THEN << >>
  ELSE IF Head(ms).role = "user" THEN <<Head(ms)>> \o FilterUser(Tail(ms))
  ELSE FilterUser(Tail(ms))

\* messages.filter(...).pop(): the last user message, or none.
LastUserMessage(ms) ==
  LET us == FilterUser(ms)
  IN IF us = << >> THEN [found |-> FALSE, content |-> Undefined]
     ELSE [found |-> TRUE, content |-> us[Len(us)].content]

(* ----------------------------------------------------- intent extractor  *)

\* What the extraction LLM call can come back with: the fetch rejects
\* ("transport"), the status is not OK ("status"), or the reply carries
\* message.content that is missing or empty ("empty"), not JSON
\* ("invalid"), the JSON null ("null"), a JSON number, string or boolean
\* ("prim"), a JSON array ("array") or a JSON object ("object") with the
\* given fields.
ExtReply(kind, q, loc, fq) ==
  [kind |-> kind, query |-> q, location |-> loc, formatted_query |-> fq]

ExtFailKinds == {"transport", "status", "empty", "invalid", "null", "prim"}

ExtReplies ==
  {ExtReply(kd, Undefined, Undefined, Undefined) : kd \in ExtFailKinds \cup {"array"}}
  \cup {ExtReply("object", "cafe", "Taipei", "cafe in Taipei"),
        ExtReply("object", "cafe", "Taipei", Undefined),
        ExtReply("object", Undefined, Undefined, Undefined)}

\* A LocationIntent value; array marks a JavaScript array carrying the
\* properties (what JSON.parse gives for array text).
Intent(q, loc, fq, isArray) ==
  [query |-> q, location |-> loc, formatted_query |-> fq, array |-> isArray]

\* The extractor's own fallback, agent.js lines 84-88.
Fallback(userQuery) == Intent(userQuery, "near me", userQuery, FALSE)

\* The try block of extractLocationIntent: threw is TRUE where a statement
\* of it throws (agent.js is an ES module, so assigning a property on a
\* primitive throws a TypeError, as does reading a property of null).
ExtractTry(userQuery, reply) ==
  IF reply.kind \in ExtFailKinds
  THEN [threw |-> TRUE, value |-> Fallback(userQuery)]
  ELSE LET q  == IF ~Truthy(reply.query) THEN userQuery ELSE reply.query
           fq == IF ~Truthy(reply.formatted_query) THEN q ELSE reply.formatted_query
       IN [threw |-> FALSE,
           value |-> Intent(q, reply.location, fq, reply.kind = "array")]

\* A slip in the catch block: the error is passed on instead of answered.
ExtractLocationIntentRethrows(userQuery, reply) ==
  LET t == ExtractTry(userQuery, reply)
  IN [raised |-> t.threw, value |-> t.value]

\* extractLocationIntent: the try block, and the catch that answers every
\* throw with the fallback.
ExtractLocationIntent(userQuery, reply) ==
  LET t == ExtractTry(userQuery, reply)
  IN IF t.threw THEN [raised |-> FALSE, value |-> Fallback(userQuery)]
     ELSE [raised |-> FALSE, value |-> t.value]

\* The orchestrator's own fallback on a rejected race, agent.js line 187:
\* no location field.
RaceFallback(userQuery) == Intent(userQuery, Undefined, userQuery, FALSE)

(* ------------------------------------------------------- places gateway  *)

\* results.slice(0, 20)
ResultCap == 20

Min(a, b) == IF a < b THEN a ELSE b

\* The provider's answer to textSearch: "ok" with n records, "noresults"
\* (data.results missing), "403" (authorization failure) or "fail" (any
\* other failure).
SearchReplies ==
  {[kind |-> "ok", n |-> n] : n \in 0..MaxPlaces}
  \cup {[kind |-> kd, n |-> 0] : kd \in {"noresults", "403", "fail"}}

AuthErrorText == "Google Maps API key issue - check enabled APIs"
ProviderFailText == "Request failed with status code 500"

\* searchPlaces answering every provider failure as it answers a 403.
SearchPlacesSwallowsAll(reply) ==
  CASE reply.kind = "ok" ->
         [threw |-> FALSE, results |-> [i \in 1..Min(reply.n, ResultCap) |-> i],
          error |-> Undefined]
    [] reply.kind = "noresults" ->
         [threw |-> FALSE, results |-> << >>, error |-> Undefined]
    [] OTHER ->
         [threw |-> FALSE, results |-> << >>, error |-> AuthErrorText]

\* searchPlaces: place records are modelled by their index in the
\* provider's list.
SearchPlaces(reply) ==
  CASE reply.kind = "ok" ->
         [threw |-> FALSE, results |-> [i \in 1..Min(reply.n, ResultCap) |-> i],
          error |-> Undefined]
    [] reply.kind = "noresults" ->
         [threw |-> FALSE, results |-> << >>, error |-> Undefined]
    [] reply.kind = "403" ->
         [threw |-> FALSE, results |-> << >>, error |-> AuthErrorText]
    [] OTHER ->
         [threw |-> TRUE, results |-> << >>, error |-> ProviderFailText]

(* ------------------------------------------- distances (maps/places.js)  *)

\* A number-valued property: a number, or nothing (undefined or null).
Num(v) == [has |-> TRUE, v |-> v]
NoNum == [has |-> FALSE, v |-> 0]

\* JavaScript truthiness of a number-valued property: 0 is falsy.
TruthyNum(x) == x.has /\ x.v # 0

Abs(x) == IF x < 0 THEN -x ELSE x

\* calculateDistance, in metres (distanceKm * 1000).  Coordinates are
\* held in metres of arc (one unit is 1/111194.9 of a degree), and the
\* points of this model share a meridian or lie on the equator, where the
\* haversine formula gives R times the difference of the angles.
CalculateDistance(lat1, lon1, lat2, lon2) ==
  IF lon1 = lon2 THEN Abs(lat2 - lat1) ELSE Abs(lon2 - lon1)

\* A rendered distance: the digits before the point, the digits after it
\* (none, or one) and the suffix.  "1.0km" is Rendering(1, <<0>>, "km").
Rendering(whole, decimals, suffix) ==
  [whole |-> whole, decimals |-> decimals, suffix |-> suffix]
NoRendering == Rendering(0, << >>, Undefined)

\* Distances of the second tier whose kilometres end in 5 hundredths and
\* that toFixed(1) rounds up: the double nearest to m / 1000 is at or
\* above the midpoint.  The others of that form are rounded down.
TiesRoundedUp ==
  {1050, 1250, 1350, 1550, 1750, 1850, 2250, 2350, 2450, 2750, 2850, 2950,
   3250, 3350, 3450, 3750, 3850, 3950, 4150, 4250, 4450, 4650, 4750, 4950,
   5150, 5250, 5450, 5650, 5750, 5950, 6150, 6250, 6450, 6650, 6750, 6950,
   7150, 7250, 7450, 7650, 7750, 7950, 8050, 8150, 8250, 8550, 8650, 8750,
   9050, 9150, 9250, 9550, 9650, 9750}

\* distanceKm.toFixed(1), as a number of tenths of a kilometre.
ToFixed1(m) ==
  IF m % 100 = 50
  THEN (m \div 100) + (IF m \in TiesRoundedUp THEN 1 ELSE 0)
  ELSE (m + 50) \div 100

\* formatDistance without its middle tier.
FormatDistanceTwoTier(m) ==
  IF m < 1000 THEN Rendering(m, << >>, "m")
  ELSE Rendering((m + 500) \div 1000, << >>, "km")

\* formatDistance(distanceKm), for a distance of m whole metres.
FormatDistance(m) ==
  IF m < 1000 THEN Rendering(m, << >>, "m")
  ELSE IF m < 10000
       THEN Rendering(ToFixed1(m) \div 10, <<ToFixed1(m) % 10>>, "km")
       ELSE Rendering((m + 500) \div 1000, << >>, "km")

\* userLocation: null, or {lat, lng}.
Origin(lat, lng) == [given |-> TRUE, lat |-> lat, lng |-> lng]
NoOrigin == [given |-> FALSE, lat |-> NoNum, lng |-> NoNum]

\* A provider place record, by its geometry.location (both NoNum where
\* the record has no geometry).
Place(lat, lng) == [lat |-> lat, lng |-> lng]

\* The distance fields of a place record, as searchPlaces and
\* getPlaceDetails compute them; a field that is null holds NoNum or
\* NoRendering.
PlaceRecord(place, origin) ==
  LET lat == place.lat
      lng == place.lng
      measured == /\ origin.given /\ TruthyNum(origin.lat) /\ TruthyNum(origin.lng)
                  /\ TruthyNum(lat) /\ TruthyNum(lng)
      distance == IF measured
                  THEN Num(CalculateDistance(origin.lat.v, origin.lng.v, lat.v, lng.v))
                  ELSE NoNum
  IN [lat |-> lat, lng |-> lng,
      distance_km |-> distance,
      distance_text |-> IF distance.has THEN FormatDistance(distance.v)
                        ELSE NoRendering]

(* ------------------------------------- gateway functions (maps/*.js)     *)

\* What a gateway function did: raised (with error the message), or
\* returned items (none: a null result or an empty list) and an error
\* string (Undefined: no error key).
Ret(raised, error, items) == [raised |-> raised, error |-> error, items |-> items]
NoRet == Ret(FALSE, Undefined, << >>)

\* A provider answer: kind "ok" with the items of the payload, or the
\* failure, by its HTTP status ("network": no response at all).
Reply(kind, items) == [kind |-> kind, items |-> items]
NoProviderReply == Reply("none", << >>)
FailKinds == {"403", "404", "500", "network"}

PlaceNotFoundText == "Place not found"
KeyIssueText == "API key issue"
TypeErrorText == "Cannot read properties of undefined"

\* A lookup request: the route and req.query.
Request(ep, q) == [ep |-> ep, query |-> q]
NoRequest == Request("none", [none |-> ""])

\* A JSON response: the status, the error key and the result or results.
Response(status, error, items) == [status |-> status, error |-> error, items |-> items]
NoResponse == Response(0, Undefined, << >>)

\* searchPlaces over provider records with coordinates.
SearchPlaceRecords(reply, origin) ==
  LET r == SearchPlaces([kind |-> reply.kind, n |-> Len(reply.items)])
  IN Ret(r.threw, r.error,
         [i \in DOMAIN r.results |-> PlaceRecord(reply.items[r.results[i]], origin)])

\* getPlaceDetails answering a null result where the provider says 404.
GetPlaceDetailsNullOnNotFound(reply, origin) ==
  CASE reply.kind = "ok" /\ reply.items # << >> ->
         Ret(FALSE, Undefined, <<PlaceRecord(reply.items[1], origin)>>)
    [] reply.kind = "ok" /\ reply.items = << >> ->
         Ret(TRUE, TypeErrorText, << >>)
    [] reply.kind = "404" -> Ret(FALSE, PlaceNotFoundText, << >>)
    [] reply.kind = "403" -> Ret(FALSE, KeyIssueText, << >>)
    [] OTHER -> Ret(TRUE, ProviderFailText, << >>)

\* getPlaceDetails: an "ok" answer without items is one without
\* data.result, on which place.geometry throws a TypeError.
GetPlaceDetails(reply, origin) ==
  CASE reply.kind = "ok" /\ reply.items # << >> ->
         Ret(FALSE, Undefined, <<PlaceRecord(reply.items[1], origin)>>)
    [] reply.kind = "ok" /\ reply.items = << >> ->
         Ret(TRUE, TypeErrorText, << >>)
    [] reply.kind = "404" -> Ret(TRUE, PlaceNotFoundText, << >>)
    [] reply.kind = "403" -> Ret(FALSE, KeyIssueText, << >>)
    [] OTHER -> Ret(TRUE, ProviderFailText, << >>)

\* geocodeLocation letting a provider failure through.
GeocodeLocationRethrows(reply) ==
  IF reply.kind = "ok"
  THEN IF Len(reply.items) > 0
       THEN Ret(FALSE, Undefined, <<Place(reply.items[1].lat, reply.items[1].lng)>>)
       ELSE NoRet
  ELSE Ret(TRUE, ProviderFailText, << >>)

\* geocodeLocation: {lat, lng} of the first result, or null.
GeocodeLocation(reply) ==
  IF reply.kind = "ok"
  THEN IF Len(reply.items) > 0
       THEN Ret(FALSE, Undefined, <<Place(reply.items[1].lat, reply.items[1].lng)>>)
       ELSE NoRet
  ELSE NoRet

\* reverseGeocode: the formatted address of the first result, or null.
ReverseGeocode(reply) ==
  IF reply.kind = "ok"
  THEN IF Len(reply.items) > 0
       THEN Ret(FALSE, Undefined, <<reply.items[1].formatted_address>>)
       ELSE NoRet
  ELSE NoRet

\* getDirections letting failures other than 403 through.
GetDirectionsRethrows(reply) ==
  CASE reply.kind = "ok" /\ reply.items = << >> -> Ret(FALSE, "No directions found", << >>)
    [] reply.kind = "ok" /\ reply.items # << >> ->
         IF reply.items[1].legs = << >>
         THEN Ret(TRUE, TypeErrorText, << >>)
         ELSE Ret(FALSE, Undefined, <<reply.items[1].legs[1]>>)
    [] reply.kind = "403" -> Ret(FALSE, KeyIssueText, << >>)
    [] OTHER -> Ret(TRUE, ProviderFailText, << >>)

\* getDirections: the texts of the first leg of the first route; a route
\* without legs throws a TypeError inside the try.
GetDirections(reply) ==
  CASE reply.kind = "ok" /\ reply.items = << >> -> Ret(FALSE, "No directions found", << >>)
    [] reply.kind = "ok" /\ reply.items # << >> ->
         IF reply.items[1].legs = << >>
         THEN Ret(FALSE, TypeErrorText, << >>)
         ELSE Ret(FALSE, Undefined, <<reply.items[1].legs[1]>>)
    [] reply.kind = "403" -> Ret(FALSE, KeyIssueText, << >>)
    [] OTHER -> Ret(FALSE, ProviderFailText, << >>)

(* ---------------------------------------------------- narration decoding *)

\* A provider frame is a line of JSON followed by a newline.  Its kinds:
\* "text" (message.content is a non-empty string), "empty" (message or
\* content missing, or content empty) and "bad" (a line that is not JSON).
FrameKinds == {"text", "empty", "bad"}

\* A fourth kind, "json": message.content is prose that happens to be the
\* text of a places payload, {"type":"places","data":[0]}.
JsonDeltaData == <<0>>
JsonDeltaText == "{\"type\":\"places\",\"data\":[0]}"

\* The content of the text frame at position i of the stream.
DeltaText(i) == <<"A", "B", "C", "D">>[i]

\* The byte stream as tokens: each frame is two halves and a newline, so
\* that a transport read can end in the middle of a frame.
NL == [f |-> 0, half |-> 0]
Tok(i, h) == [f |-> i, half |-> h]

RECURSIVE TokensFrom(_, _)
TokensFrom(i, n) ==
  IF i > n THEN << >> ELSE <<Tok(i, 1), Tok(i, 2), NL>> \o TokensFrom(i + 1, n)

Tokens(frames) == TokensFrom(1, Len(frames))

\* chunk.split("\n").filter(line => line.trim())
RECURSIVE SplitLines(_, _)
SplitLines(chunk, cur) ==
  IF chunk = << >> THEN (IF cur = << >> THEN << >> ELSE <<cur>>)
  ELSE IF Head(chunk) = NL
       THEN (IF cur = << >> THEN << >> ELSE <<cur>>) \o SplitLines(Tail(chunk), << >>)
       ELSE SplitLines(Tail(chunk), Append(cur, Head(chunk)))

\* JSON.parse(line) and parsed.message?.content for one line: the content
\* forwarded, or Undefined when the line does not parse or has no content.
LineContent(frames, line) ==
  IF Len(line) = 2 /\ line[1].half = 1 /\ line[2].half = 2 /\ line[1].f = line[2].f
  THEN LET i == line[1].f
       IN IF frames[i] = "text" THEN DeltaText(i)
          ELSE IF frames[i] = "json" THEN JsonDeltaText
          ELSE IF frames[i] = "empty" THEN ""
          ELSE Undefined
  ELSE Undefined

\* The string handed to onChunk for a line with content c.
DeltaValue(c) == IF c = JsonDeltaText THEN PlacesEvent(JsonDeltaData) ELSE Str(c)

\* A decoder that forwards every parsed frame, empty content included.
ForwardsDeltaAlways(c) == c # Undefined

\* if (parsed.message?.content)
ForwardsDelta(c) == Truthy(c)

\* A decoder whose loop over the lines of a read ends at the first line
\* that does not parse.
ContinuesUnlessBad(c) == c # Undefined

\* try { ... } catch {} inside the for loop: whatever the line was, the
\* loop goes on to the next one.
Continues(c) == TRUE

\* The onChunk arguments produced by one transport read, in order.
RECURSIVE DeltasOfLines(_, _)
DeltasOfLines(frames, lines) ==
  IF lines = << >> THEN << >>
  ELSE LET c == LineContent(frames, Head(lines))
       IN (IF ForwardsDelta(c) THEN <<DeltaValue(c)>> ELSE << >>)
          \o (IF Continues(c) THEN DeltasOfLines(frames, Tail(lines)) ELSE << >>)

ChunkDeltas(frames, chunk) == DeltasOfLines(frames, SplitLines(chunk, << >>))

FrameLists == UNION {[1..n -> FrameKinds] : n \in 0..MaxFrames}

\* Streams in which some delta is JSON-looking prose.
JsonFrameLists ==
  {fs \in UNION {[1..n -> {"text", "json"}] : n \in 1..MaxFrames} :
     \E i \in DOMAIN fs : fs[i] = "json"}

(* ------------------------------------------------------------- state     *)

VARIABLES
  \* browser (App): React state and the locals of the sendMessage in flight
  messages, isLoading, isStreaming, error, asstContent, asstPlaces, userLocation,
  \* client (streamChat): position and number of wire lines consumed
  cpc, cpos,
  \* HTTP exchange: who sent the request, its body, and the response
  caller, reqBody, statusCode, headersSent, wire, resEnded,
  \* POST /api/chat handler position
  hpc,
  \* streamChatWithTools: position and locals
  pc, userQuery, extracted, extState, searchQuery, places,
  \* streamLLMResponse: abort timer, provider stream (frames, unread tokens)
  \* and the error it threw, if any (llmError.name)
  timerArmed, frames, rest, stalled, narrError,
  \* observation: the callback calls made by the orchestrator, in order, the
  \* collaborator calls it issued, in order, and what the extraction call
  \* and the places provider answered
  calls, issued, extReply, extRaised, searchReply,
  \* a REST lookup: the request, the route's position, the gateway function
  \* it called, what the provider answered, what the function did and the
  \* response
  rq, rpc, rcalled, rreply, rret, rres,
  \* two chat turns side by side: what belongs to each request, and the
  \* locals of each invocation of streamChatWithTools
  turns, locals,
  \* streamChat reading a response body byte by byte: the bytes read but
  \* not yet dispatched, and the callback calls made, in order
  buffer, dispatched,
  \* the page (App): chat requests that have not settled, the location
  \* state, and the location lookup and 3 s timer of the mount effect
  \* and the lookups of requestLocation that have not resolved
  inflight, isLoadingLocation, locationDenied, locationFound, mountTimer,
  mountLookup, lookups

uiVars == <<messages, isLoading, isStreaming, error, asstContent, asstPlaces, userLocation>>
clientVars == <<cpc, cpos>>
httpVars == <<statusCode, headersSent, wire, resEnded>>
reqVars == <<caller, reqBody>>
turnVars == <<pc, userQuery, extracted, extState, searchQuery, places>>
narrVars == <<timerArmed, frames, rest, stalled, narrError>>
obsVars == <<extReply, extRaised, searchReply>>
lookupVars == <<rq, rpc, rcalled, rreply, rret, rres>>
concVars == <<turns, locals>>
streamVars == <<buffer, dispatched>>
locVars == <<isLoadingLocation, locationDenied, locationFound, mountTimer, mountLookup, lookups>>
pageVars == <<streamVars, inflight, locVars>>
vars == <<uiVars, clientVars, reqVars, httpVars, hpc, turnVars, narrVars, calls, issued,
          obsVars, lookupVars, concVars, pageVars>>

\* Two requests in flight at once.
ConcTurns == {1, 2}

\* What belongs to one of them: the last user message of its body, the
\* position of its streamChatWithTools invocation, the callback calls made
\* on its response, and what its collaborators answered: the search
\* reply, the narration stream and whether the narration is over.
NoTurn ==
  [pc |-> "none", userQuery |-> Undefined, calls |-> << >>,
   searchReply |-> [kind |-> "none", n |-> 0], stream |-> << >>, ended |-> FALSE]

\* The locals of one invocation: extracted, places, and the narration
\* response it reads (its frames and the tokens not yet read).
NoLocals ==
  [extracted |-> Intent(Undefined, Undefined, Undefined, FALSE), places |-> NoData,
   frames |-> << >>, rest |-> << >>]

\* A request body: isArray is Array.isArray(messages).
Body(isArray, ms, loc) == [isArray |-> isArray, messages |-> ms, userLocation |-> loc]
NoLocation == "<null>"
NoIntent == Intent(Undefined, Undefined, Undefined, FALSE)
NoReply == ExtReply("none", Undefined, Undefined, Undefined)
NoSearchReply == [kind |-> "none", n |-> 0]

\* Bodies another HTTP caller can post.
ApiBodies ==
  {Body(FALSE, << >>, NoLocation)}
  \cup {Body(TRUE, ms, NoLocation) :
          ms \in {<< >>, <<AsstMsg("hello")>>, <<UserMsg("cafe")>>,
                  <<UserMsg("tea"), AsstMsg("Here are some places"), UserMsg("bar"),
                    AsstMsg("hello")>>}}

\* What the user can have typed when sendMessage runs.
Inputs == {"", "  ", "cafe", " cafe "}

Init ==
  /\ messages = << >>
  /\ isLoading = FALSE /\ isStreaming = FALSE /\ error = Undefined
  /\ asstContent = << >> /\ asstPlaces = NoData
  /\ userLocation = NoLocation
  /\ cpc = "idle" /\ cpos = 0
  /\ caller = "none" /\ reqBody = Body(FALSE, << >>, NoLocation)
  /\ statusCode = 0 /\ headersSent = FALSE /\ wire = << >> /\ resEnded = FALSE
  /\ hpc = "idle"
  /\ pc = "none" /\ userQuery = Undefined /\ extracted = NoIntent
  /\ extState = "none" /\ searchQuery = Undefined /\ places = NoData
  /\ timerArmed = FALSE /\ frames = << >> /\ rest = << >> /\ stalled = FALSE
  /\ narrError = "none"
  /\ calls = << >> /\ issued = << >>
  /\ extReply = NoReply /\ extRaised = FALSE /\ searchReply = NoSearchReply
  /\ rq = NoRequest /\ rpc = "idle" /\ rcalled = "none"
  /\ rreply = NoProviderReply /\ rret = NoRet /\ rres = NoResponse
  /\ turns = [t \in ConcTurns |-> NoTurn] /\ locals = [t \in ConcTurns |-> NoLocals]
  /\ buffer = << >> /\ dispatched = << >>
  /\ inflight = 0
  /\ isLoadingLocation = TRUE /\ locationDenied = FALSE /\ locationFound = FALSE
  /\ mountTimer = "armed" /\ mountLookup = "pending" /\ lookups = 0

(* ------------------------------------------- server callbacks (part_001) *)

OnChunk(c) == [cb |-> "chunk", arg |-> c]
OnError(e) == [cb |-> "error", arg |-> e]

DONE == Str("[DONE]")

\* The handler's chunk callback: structured data is written as it is,
\* anything else wrapped as {content: chunk}.
ChunkCallback(w, chunk) ==
  IF StartsWithType(chunk) THEN Append(w, chunk)
  ELSE Append(w, JSONstringify([EmptyObj EXCEPT !.content = chunk.s]))

\* The handler's error callback: writes {error: error.message}.
ErrorCallback(w, e) ==
  Append(w, JSONstringify([EmptyObj EXCEPT !.error = MessageOf(e)]))

RECURSIVE WriteAll(_, _)
WriteAll(w, cs) ==
  IF cs = << >> THEN w
  ELSE WriteAll(IF Head(cs).cb = "chunk" THEN ChunkCallback(w, Head(cs).arg)
                ELSE ErrorCallback(w, Head(cs).arg),
                Tail(cs))

\* The orchestrator makes the callback calls cs, in order; each one is a
\* res.write of the handler, the first of which sends the headers.
Deliver(cs) ==
  /\ calls' = calls \o cs
  /\ wire' = WriteAll(wire, cs)
  /\ headersSent' = (headersSent \/ cs # << >>)
  /\ statusCode' = IF cs # << >> /\ ~headersSent THEN 200 ELSE statusCode
  /\ UNCHANGED resEnded

(* ---------------------------------------------------- request arrival    *)

\* String.prototype.trim on the inputs of the model.
Trim(s) ==
  CASE s = "  " -> ""
    [] s = " cafe " -> "cafe"
    [] OTHER -> s

\* A sendMessage that looks at the input only.
SendBlockedOnEmptyOnly(trimmedInput, loading) == trimmedInput = ""

\* if (!trimmedInput || isLoading) return;
SendBlocked(trimmedInput, loading) == trimmedInput = "" \/ loading

\* sendMessage up to the fetch of streamChat.
SendMessage(input) ==
  /\ ~SendBlocked(Trim(input), isLoading)
  /\ caller = "none"
  /\ messages' = Append(messages, UserMsg(Trim(input)))
  /\ isLoading' = TRUE /\ isStreaming' = TRUE /\ error' = Undefined
  /\ asstContent' = << >> /\ asstPlaces' = NoData
  /\ caller' = "ui"
  /\ reqBody' = Body(TRUE, messages', userLocation)
  /\ cpc' = "fetch" /\ hpc' = "recv"
  /\ UNCHANGED <<pageVars, lookupVars, concVars, userLocation, cpos, httpVars, turnVars, narrVars, calls, issued, obsVars>>

\* A POST /api/chat from any other HTTP caller.
PostChat(body) ==
  /\ caller = "none"
  /\ caller' = "api" /\ reqBody' = body /\ hpc' = "recv"
  /\ UNCHANGED <<pageVars, lookupVars, concVars, uiVars, clientVars, httpVars, turnVars, narrVars, calls, issued, obsVars>>

\* The rate limiter answers instead of the handler.
RateLimited ==
  /\ hpc = "recv"
  /\ statusCode' = 429 /\ headersSent' = TRUE /\ resEnded' = TRUE /\ hpc' = "done"
  /\ UNCHANGED <<pageVars, lookupVars, concVars, uiVars, clientVars, reqVars, wire, turnVars, narrVars, calls, issued, obsVars>>

(* ------------------------------------------------- POST /api/chat, start *)

\* messages missing or not an array: 400 before anything else.
ChatBadRequest ==
  /\ hpc = "recv" /\ ~reqBody.isArray
  /\ statusCode' = 400 /\ headersSent' = TRUE /\ resEnded' = TRUE /\ hpc' = "done"
  /\ UNCHANGED <<pageVars, lookupVars, concVars, uiVars, clientVars, reqVars, wire, turnVars, narrVars, calls, issued, obsVars>>

\* The handler sets the SSE headers and calls streamChatWithTools, which
\* finds no user message: onError and return.
ChatNoUser ==
  /\ hpc = "recv" /\ reqBody.isArray
  /\ ~LastUserMessage(reqBody.messages).found
  /\ Deliver(<<OnError(Str("No user message found"))>>)
  /\ pc' = "returned" /\ hpc' = "await"
  /\ UNCHANGED <<pageVars, lookupVars, concVars, uiVars, clientVars, reqVars, userQuery, extracted, extState,
                 searchQuery, places, narrVars, issued, obsVars>>

\* ... or finds one and starts step 1: the extraction call and its 3 s
\* deadline are both pending.
ChatStart ==
  /\ hpc = "recv" /\ reqBody.isArray
  /\ LastUserMessage(reqBody.messages).found
  /\ userQuery' = LastUserMessage(reqBody.messages).content
  /\ pc' = "extract" /\ extState' = "pending" /\ hpc' = "await"
  /\ issued' = Append(issued, "extract")
  /\ UNCHANGED <<pageVars, lookupVars, concVars, uiVars, clientVars, reqVars, httpVars, extracted, searchQuery,
                 places, narrVars, calls, obsVars>>

(* ------------------------------------------ streamChatWithTools, step 1 *)

\* The value the race settles with when the extractor settles first: its
\* result, or the catch's fallback had it rejected.
RaceValue(uq, reply) ==
  LET r == ExtractLocationIntent(uq, reply)
  IN IF r.raised THEN RaceFallback(uq) ELSE r.value

\* A race in which the last settlement wins.
RaceSettleLast(state, cur, v) == v

\* Promise.race settles once, with the first of its promises to settle:
\* cur is the value it holds when a promise settles with v.
RaceSettle(state, cur, v) == IF state = "pending" THEN v ELSE cur

\* The query handed to searchPlaces.
SearchQueryOf(uq, intent) == intent.formatted_query

\* The extractor settles before the deadline: the turn goes on to step 2
\* and calls searchPlaces.
ExtractResolve(reply) ==
  /\ pc = "extract" /\ extState = "pending"
  /\ extracted' = RaceSettle(extState, extracted, RaceValue(userQuery, reply))
  /\ extReply' = reply
  /\ extRaised' = ExtractLocationIntent(userQuery, reply).raised
  /\ extState' = "settled"
  /\ searchQuery' = SearchQueryOf(userQuery, extracted')
  /\ issued' = Append(issued, "search")
  /\ pc' = "search"
  /\ UNCHANGED <<pageVars, lookupVars, concVars, uiVars, clientVars, reqVars, httpVars, hpc, userQuery, places,
                 narrVars, calls, searchReply>>

\* The 3 s deadline fires first: the race rejects, the catch supplies the
\* fallback, the extraction call is left running.
ExtractTimeout ==
  /\ pc = "extract" /\ extState = "pending"
  /\ extracted' = RaceSettle(extState, extracted, RaceFallback(userQuery))
  /\ extState' = "abandoned"
  /\ searchQuery' = SearchQueryOf(userQuery, extracted')
  /\ issued' = Append(issued, "search")
  /\ pc' = "search"
  /\ UNCHANGED <<pageVars, lookupVars, concVars, uiVars, clientVars, reqVars, httpVars, hpc, userQuery, places,
                 narrVars, calls, obsVars>>

\* The abandoned extraction call settles later, with any reply: it settles
\* a promise of a race that has settled already.
ExtractLate ==
  /\ extState = "abandoned"
  /\ \E reply \in ExtReplies :
       extracted' = RaceSettle(extState, extracted, RaceValue(userQuery, reply))
  /\ extState' = "late"
  /\ UNCHANGED <<pageVars, lookupVars, concVars, uiVars, clientVars, reqVars, httpVars, hpc, pc, userQuery,
                 searchQuery, places, narrVars, calls, issued, obsVars>>

\* The 3 s timer, which nothing clears, fires after the extractor has
\* settled the race: its rejection settles a promise of a settled race.
DeadlineLate ==
  /\ extState = "settled"
  /\ extracted' = RaceSettle(extState, extracted, RaceFallback(userQuery))
  /\ extState' = "expired"
  /\ UNCHANGED <<pageVars, lookupVars, concVars, uiVars, clientVars, reqVars, httpVars, hpc, pc, userQuery,
                 searchQuery, places, narrVars, calls, issued, obsVars>>

(* ------------------------------------- streamChatWithTools, steps 2 to 4 *)

\* A turn that never looks at the error of the search result.
HasErrorNever(r) == FALSE

\* if (placesResult.error)
HasError(r) == Truthy(r.error)

\* searchPlaces throws: the outer catch calls onError(error.message) and
\* rethrows.
SearchThrows(reply) ==
  /\ pc = "search" /\ SearchPlaces(reply).threw
  /\ searchReply' = reply
  /\ Deliver(<<OnError(Str(MessageOf(ErrorObj(SearchPlaces(reply).error))))>>)
  /\ pc' = "threw"
  /\ UNCHANGED <<pageVars, lookupVars, concVars, uiVars, clientVars, reqVars, hpc, userQuery, extracted, extState,
                 searchQuery, places, narrVars, issued, extReply, extRaised>>

\* searchPlaces returns a result carrying an error: onError and return.
SearchError(reply) ==
  /\ pc = "search" /\ ~SearchPlaces(reply).threw
  /\ HasError(SearchPlaces(reply))
  /\ searchReply' = reply
  /\ Deliver(<<OnError(Str(SearchPlaces(reply).error))>>)
  /\ pc' = "returned"
  /\ UNCHANGED <<pageVars, lookupVars, concVars, uiVars, clientVars, reqVars, hpc, userQuery, extracted, extState,
                 searchQuery, places, narrVars, issued, extReply, extRaised>>

\* A turn that announces the places even when there are none.
PlacesCallsAlways(ps) == <<OnChunk(PlacesEvent(ps))>>

\* A turn that goes to narration without announcing the places.
PlacesCallsNever(ps) == << >>

\* Step 3: one places event when there is at least one place.
PlacesCalls(ps) == IF Len(ps) > 0 THEN <<OnChunk(PlacesEvent(ps))>> ELSE << >>

\* searchPlaces returns results: step 3, then streamLLMResponse arms its
\* abort timer and issues the narration call.
SearchOk(reply) ==
  /\ pc = "search" /\ ~SearchPlaces(reply).threw
  /\ ~HasError(SearchPlaces(reply))
  /\ searchReply' = reply
  /\ places' = SearchPlaces(reply).results
  /\ Deliver(PlacesCalls(places'))
  /\ timerArmed' = TRUE
  /\ issued' = Append(issued, "narrate")
  /\ pc' = "narr_fetch"
  /\ UNCHANGED <<pageVars, lookupVars, concVars, uiVars, clientVars, reqVars, hpc, userQuery, extracted, extState,
                 searchQuery, frames, rest, stalled, narrError, extReply, extRaised>>

(* ------------------------------------- streamChatWithTools, steps 5 and 6 *)

\* A turn that skips the completion signal.
TerminalCallsNone == << >>

\* onChunk(""): the completion signal.
TerminalCalls == <<OnChunk(Str(""))>>

\* The narration fetch resolves with a response: the abort timer is
\* cleared and the body is read from there on.  fs is what the provider
\* will stream.
NarrFetchOk(fs) ==
  /\ pc = "narr_fetch"
  /\ timerArmed' = FALSE
  /\ frames' = fs /\ rest' = Tokens(fs)
  /\ pc' = "narr_read"
  /\ UNCHANGED <<pageVars, lookupVars, concVars, uiVars, clientVars, reqVars, httpVars, hpc, userQuery, extracted,
                 extState, searchQuery, places, stalled, narrError, calls, issued, obsVars>>

\* A turn whose narration failure reaches the outer catch.
NarrFailureCallsOuterCatch(name) == <<OnError(Str(name))>>

\* catch (llmError): the failure is logged, and the turn goes on to the
\* completion signal.
NarrFailureCalls(name) == TerminalCalls

\* streamLLMResponse throws (its catch clears the timer and rethrows); the
\* orchestrator logs it and goes on to the completion signal.
NarrFailed(name) ==
  /\ timerArmed' = FALSE
  /\ narrError' = name
  /\ Deliver(NarrFailureCalls(name))
  /\ pc' = "returned"
  /\ UNCHANGED <<pageVars, lookupVars, concVars, uiVars, clientVars, reqVars, hpc, userQuery, extracted, extState,
                 searchQuery, places, frames, rest, stalled, issued, obsVars>>

\* The narration fetch rejects (transport error).
NarrFetchFail == pc = "narr_fetch" /\ NarrFailed("TypeError")

\* The abort timer fires while armed: the pending fetch, or the pending
\* body read, rejects with an AbortError.
NarrAbort ==
  /\ timerArmed /\ pc \in {"narr_fetch", "narr_read"}
  /\ NarrFailed("AbortError")

\* One reader.read() delivering the next k tokens: every line of the chunk
\* is decoded on its own and its content, if any, forwarded.
NarrRead(k) ==
  /\ pc = "narr_read" /\ ~stalled
  /\ k \in 1..Len(rest)
  /\ LET ds == ChunkDeltas(frames, SubSeq(rest, 1, k))
     IN Deliver([i \in 1..Len(ds) |-> OnChunk(ds[i])])
  /\ rest' = SubSeq(rest, k + 1, Len(rest))
  /\ UNCHANGED <<pageVars, lookupVars, concVars, uiVars, clientVars, reqVars, hpc, turnVars, timerArmed, frames,
                 stalled, narrError, issued, obsVars>>

\* reader.read() reports done: streamLLMResponse returns, then the
\* completion signal.
NarrDone ==
  /\ pc = "narr_read" /\ ~stalled /\ rest = << >>
  /\ Deliver(TerminalCalls)
  /\ pc' = "returned"
  /\ UNCHANGED <<pageVars, lookupVars, concVars, uiVars, clientVars, reqVars, hpc, userQuery, extracted, extState,
                 searchQuery, places, narrVars, issued, obsVars>>

\* reader.read() rejects (the connection breaks mid-stream).
NarrReadError ==
  /\ pc = "narr_read" /\ ~stalled
  /\ NarrFailed("TypeError")

\* The provider stops sending without closing the stream: the pending
\* reader.read() never settles.
NarrStall ==
  /\ pc = "narr_read" /\ ~stalled
  /\ stalled' = TRUE
  /\ UNCHANGED <<pageVars, lookupVars, concVars, uiVars, clientVars, reqVars, httpVars, hpc, turnVars, timerArmed,
                 frames, rest, narrError, calls, issued, obsVars>>

(* --------------------------------------------------- POST /api/chat, end *)

\* The catch block ends the response only when no header has been sent
\* (it then answers 500).
CatchEndsResponse(sent) == ~sent

\* streamChatWithTools resolved: write [DONE] and end the response.
ChatFinish ==
  /\ hpc = "await" /\ pc = "returned"
  /\ wire' = Append(wire, DONE)
  /\ headersSent' = TRUE
  /\ statusCode' = IF headersSent THEN statusCode ELSE 200
  /\ resEnded' = TRUE
  /\ hpc' = "done"
  /\ UNCHANGED <<pageVars, lookupVars, concVars, uiVars, clientVars, reqVars, turnVars, narrVars, calls, issued, obsVars>>

\* streamChatWithTools rejected: the handler's catch.
ChatCatch ==
  /\ hpc = "await" /\ pc = "threw"
  /\ IF CatchEndsResponse(headersSent)
     THEN statusCode' = 500 /\ headersSent' = TRUE /\ resEnded' = TRUE
     ELSE UNCHANGED <<statusCode, headersSent, resEnded>>
  /\ hpc' = "done"
  /\ UNCHANGED <<pageVars, lookupVars, concVars, uiVars, clientVars, reqVars, wire, turnVars, narrVars, calls, issued, obsVars>>

(* ------------------------------------------------ client and browser     *)

ApiErrorText(status) ==
  CASE status = 429 -> "API error: 429"
    [] status = 400 -> "API error: 400"
    [] OTHER -> "API error: 500"

\* The browser's state touched by the callbacks of sendMessage.
Ui(c, p, e) == [content |-> c, places |-> p, error |-> e]

\* sendMessage's chunk callback: a chunk that parses as a places payload
\* sets the places, anything else is appended to the content.
UiOnChunk(ui, chunk) ==
  LET p == JSONparse(chunk)
  IN IF p.ok /\ p.obj.type = "places"
     THEN [ui EXCEPT !.places = p.obj.data]
     ELSE [ui EXCEPT !.content = Append(ui.content, chunk)]

\* sendMessage's error callback.
UiOnError(ui, msg) == [ui EXCEPT !.error = msg]

\* streamChat on one `data: ` line.
DispatchLine(ui, data) ==
  LET p == JSONparse(data)
  IN IF ~p.ok THEN ui
     ELSE LET u1 == IF Truthy(p.obj.content) THEN UiOnChunk(ui, Str(p.obj.content))
                    ELSE IF p.obj.type = "places" THEN UiOnChunk(ui, data)
                    ELSE ui
          IN IF Truthy(p.obj.error) THEN UiOnError(u1, p.obj.error) ELSE u1

\* The for loop over the lines of one read: [DONE] leaves the loop.
RECURSIVE DispatchLines(_, _)
DispatchLines(ui, lines) ==
  IF lines = << >> \/ Head(lines) = DONE THEN ui
  ELSE DispatchLines(DispatchLine(ui, Head(lines)), Tail(lines))

\* The fetch of streamChat resolves with an OK status.
ClientResponseOk ==
  /\ cpc = "fetch" /\ headersSent /\ statusCode \in 200..299
  /\ cpc' = "read"
  /\ UNCHANGED <<pageVars, lookupVars, concVars, uiVars, cpos, reqVars, httpVars, hpc, turnVars, narrVars, calls, issued, obsVars>>

\* ... or with another status: streamChat calls onError and throws,
\* sendMessage's catch shows the apology and its finally ends loading.
ClientResponseNotOk ==
  /\ cpc = "fetch" /\ headersSent /\ statusCode \notin 200..299
  /\ error' = ApiErrorText(statusCode)
  /\ asstContent' = <<Str("Sorry, I encountered an error: "), Str(ApiErrorText(statusCode))>>
  /\ isLoading' = FALSE /\ isStreaming' = FALSE
  /\ cpc' = "failed"
  /\ UNCHANGED <<pageVars, lookupVars, concVars, messages, asstPlaces, userLocation, cpos, reqVars, httpVars, hpc,
                 turnVars, narrVars, calls, issued, obsVars>>

\* One reader.read() of streamChat delivering the next k lines.
ClientRead(k) ==
  /\ cpc = "read"
  /\ k \in 1..(Len(wire) - cpos)
  /\ LET ui == DispatchLines(Ui(asstContent, asstPlaces, error),
                             SubSeq(wire, cpos + 1, cpos + k))
     IN /\ asstContent' = ui.content
        /\ asstPlaces' = ui.places
        /\ error' = ui.error
  /\ cpos' = cpos + k
  /\ UNCHANGED <<pageVars, lookupVars, concVars, messages, isLoading, isStreaming, userLocation, cpc, reqVars, httpVars,
                 hpc, turnVars, narrVars, calls, issued, obsVars>>

\* The response has ended and is read to its end: streamChat returns and
\* sendMessage's finally ends loading.
ClientDone ==
  /\ cpc = "read" /\ resEnded /\ cpos = Len(wire)
  /\ isLoading' = FALSE /\ isStreaming' = FALSE
  /\ cpc' = "done"
  /\ UNCHANGED <<pageVars, lookupVars, concVars, messages, error, asstContent, asstPlaces, userLocation, cpos, reqVars,
                 httpVars, hpc, turnVars, narrVars, calls, issued, obsVars>>

(* ----------------------------------------------- REST routes (part_001)  *)

\* req.query: a function from the names of the parameters given to their
\* text.  Text parameters are strings, numeric ones sequences of digits.
Has(q, name) == name \in DOMAIN q
TextGiven(q, name) == Has(q, name) /\ q[name] # ""
NumGiven(q, name) == Has(q, name) /\ q[name] # << >>

\* parseFloat of a string of digits.
RECURSIVE ParseFloat(_)
ParseFloat(s) ==
  IF s = << >> THEN 0
  ELSE 10 * ParseFloat(SubSeq(s, 1, Len(s) - 1)) + s[Len(s)]

\* The decimal text of a whole number, as a caller writes it in a URL.
RECURSIVE DecimalText(_)
DecimalText(n) ==
  IF n < 10 THEN <<n>> ELSE Append(DecimalText(n \div 10), n % 10)

\* Largest distance, in metres, asked of /api/distance.
MaxMeters == 10600

ValidModes == {"driving", "walking", "bicycling", "transit"}

\* The texts of userLat and of userLng a caller sends.
OriginTexts ==
  {[userLat |-> DecimalText(a), userLng |-> DecimalText(b)] : a \in {0, 25, 40}, b \in {0, 25}}

\* The requests a caller sends; a parameter left out is not in the query.
Requests ==
  {Request("search", q) :
     q \in {[location |-> "Oslo"], [query |-> ""], [query |-> "cafe"],
            [query |-> "cafe", userLat |-> DecimalText(25)]}
           \cup {[query |-> "cafe", userLat |-> o.userLat, userLng |-> o.userLng] :
                   o \in OriginTexts}}
  \cup
  {Request("details", q) :
     q \in {[userLat |-> DecimalText(25)], [placeId |-> ""], [placeId |-> "p1"]}
           \cup {[placeId |-> "p1", userLat |-> o.userLat, userLng |-> o.userLng] :
                   o \in OriginTexts}}
  \cup
  {Request("geocode", q) :
     q \in {[language |-> "en"], [address |-> ""], [address |-> "Oslo"]}}
  \cup
  {Request("reverse", q) :
     q \in {[lat |-> DecimalText(25)], [lng |-> DecimalText(25)],
            [lat |-> << >>, lng |-> DecimalText(25)],
            [lat |-> DecimalText(0), lng |-> DecimalText(25)]}}
  \cup
  {Request("distance", q) :
     q \in {[lng1 |-> DecimalText(0), lat2 |-> DecimalText(25), lng2 |-> DecimalText(0)],
            [lat1 |-> DecimalText(0), lat2 |-> DecimalText(25), lng2 |-> DecimalText(0)],
            [lat1 |-> DecimalText(0), lng1 |-> DecimalText(0), lng2 |-> DecimalText(0)],
            [lat1 |-> DecimalText(0), lng1 |-> DecimalText(0), lat2 |-> DecimalText(25)]}
           \cup {[lat1 |-> DecimalText(0), lng1 |-> DecimalText(0),
                  lat2 |-> DecimalText(m), lng2 |-> DecimalText(0)] : m \in 0..MaxMeters}}
  \cup
  {Request("directions", q) :
     q \in {[origin |-> "A"], [destination |-> "B"],
            [origin |-> "", destination |-> "B"],
            [origin |-> "A", destination |-> "B"]}
           \cup {[origin |-> "A", destination |-> "B", mode |-> md] :
                   md \in ValidModes \cup {"flying", ""}}}


\* const { mode = 'driving' } = req.query
ModeOf(q) == IF Has(q, "mode") THEN q.mode ELSE "driving"

\* The validation of /api/directions without its check of the mode.
RejectionIgnoresMode(req) ==
  LET q == req.query
  IN CASE req.ep = "search" ->
            IF ~TextGiven(q, "query") THEN "Query parameter is required" ELSE Undefined
       [] req.ep = "details" ->
            IF ~TextGiven(q, "placeId") THEN "placeId parameter is required" ELSE Undefined
       [] req.ep = "geocode" ->
            IF ~TextGiven(q, "address") THEN "address parameter is required" ELSE Undefined
       [] req.ep = "reverse" ->
            IF ~NumGiven(q, "lat") \/ ~NumGiven(q, "lng")
            THEN "lat and lng parameters are required" ELSE Undefined
       [] req.ep = "distance" ->
            IF \/ ~NumGiven(q, "lat1") \/ ~NumGiven(q, "lng1")
               \/ ~NumGiven(q, "lat2") \/ ~NumGiven(q, "lng2")
            THEN "lat1, lng1, lat2, and lng2 parameters are required" ELSE Undefined
       [] req.ep = "directions" ->
            IF ~TextGiven(q, "origin") \/ ~TextGiven(q, "destination")
            THEN "Origin and destination are required"
            ELSE Undefined
       [] OTHER -> Undefined

\* The error text of the 400 a route answers to the request, Undefined
\* where the route accepts it.
Rejection(req) ==
  LET q == req.query
  IN CASE req.ep = "search" ->
            IF ~TextGiven(q, "query") THEN "Query parameter is required" ELSE Undefined
       [] req.ep = "details" ->
            IF ~TextGiven(q, "placeId") THEN "placeId parameter is required" ELSE Undefined
       [] req.ep = "geocode" ->
            IF ~TextGiven(q, "address") THEN "address parameter is required" ELSE Undefined
       [] req.ep = "reverse" ->
            IF ~NumGiven(q, "lat") \/ ~NumGiven(q, "lng")
            THEN "lat and lng parameters are required" ELSE Undefined
       [] req.ep = "distance" ->
            IF \/ ~NumGiven(q, "lat1") \/ ~NumGiven(q, "lng1")
               \/ ~NumGiven(q, "lat2") \/ ~NumGiven(q, "lng2")
            THEN "lat1, lng1, lat2, and lng2 parameters are required" ELSE Undefined
       [] req.ep = "directions" ->
            IF ~TextGiven(q, "origin") \/ ~TextGiven(q, "destination")
            THEN "Origin and destination are required"
            ELSE IF ModeOf(q) \notin ValidModes
                 THEN "Invalid mode. Must be one of: driving, walking, bicycling, transit"
                 ELSE Undefined
       [] OTHER -> Undefined

\* (userLat && userLng) ? {lat: parseFloat(userLat), lng: parseFloat(userLng)} : null
UserOrigin(q) ==
  IF NumGiven(q, "userLat") /\ NumGiven(q, "userLng")
  THEN Origin(Num(ParseFloat(q.userLat)), Num(ParseFloat(q.userLng)))
  ELSE NoOrigin

\* Provider records.
PlaceRecs == {Place(NoNum, NoNum)} \cup {Place(Num(a), Num(b)) : a \in {0, 25, 40}, b \in {0, 25}}
GeoResults == {[lat |-> 25, lng |-> 25, formatted_address |-> "Oslo"],
               [lat |-> 0, lng |-> 40, formatted_address |-> "Null Island"]}
Routes ==
  {[legs |-> << >>],
   [legs |-> <<[distance |-> "1 km", duration |-> "5 mins"]>>],
   [legs |-> <<[distance |-> "2 km", duration |-> "9 mins"],
               [distance |-> "7 km", duration |-> "1 hour"]>>]}

ListsOf(S) == UNION {[1..n -> S] : n \in 0..MaxPlaces}

\* The provider's answers to the call a route's gateway function makes.
ProviderReplies(ep) ==
  {Reply(kd, << >>) : kd \in FailKinds}
  \cup CASE ep = "search" ->
              {Reply("ok", l) : l \in ListsOf(PlaceRecs)} \cup {Reply("noresults", << >>)}
         [] ep = "details" ->
              {Reply("ok", <<p>>) : p \in PlaceRecs} \cup {Reply("ok", << >>)}
         [] ep = "directions" -> {Reply("ok", l) : l \in ListsOf(Routes)}
         [] OTHER -> {Reply("ok", l) : l \in ListsOf(GeoResults)}

\* The gateway function a route awaits, applied to the provider's answer.
Gateway(req, reply) ==
  CASE req.ep = "search" -> SearchPlaceRecords(reply, UserOrigin(req.query))
    [] req.ep = "details" -> GetPlaceDetails(reply, UserOrigin(req.query))
    [] req.ep = "geocode" -> GeocodeLocation(reply)
    [] req.ep = "reverse" -> ReverseGeocode(reply)
    [] OTHER -> GetDirections(reply)

\* What a route answers once its gateway function has settled.
RouteResponse(req, ret) ==
  IF ret.raised THEN Response(500, "Failed", << >>)
  ELSE CASE req.ep = "geocode" ->
              IF ret.items = << >> THEN Response(404, "Address not found", << >>)
              ELSE Response(200, Undefined, ret.items)
         [] req.ep = "reverse" ->
              IF ret.items = << >>
              THEN Response(404, "Address not found for given coordinates", << >>)
              ELSE Response(200, Undefined,
                            <<[address |-> ret.items[1],
                               lat |-> ParseFloat(req.query.lat),
                               lng |-> ParseFloat(req.query.lng)]>>)
         [] OTHER -> Response(200, ret.error, ret.items)

\* A caller other than the chat UI sends a lookup.
RestGet ==
  /\ caller = "none"
  /\ caller' = "rest" /\ rq' \in Requests /\ rpc' = "received"
  /\ UNCHANGED <<pageVars, concVars, uiVars, clientVars, reqBody, httpVars, hpc, turnVars, narrVars,
                 calls, issued, obsVars, rcalled, rreply, rret, rres>>

\* The rate limiter answers instead of the route.
RestLimited ==
  /\ rpc = "received"
  /\ rres' = Response(429, "Too many requests, please try again later.", << >>)
  /\ rpc' = "done"
  /\ UNCHANGED <<pageVars, concVars, uiVars, clientVars, reqVars, httpVars, hpc, turnVars, narrVars,
                 calls, issued, obsVars, rq, rcalled, rreply, rret>>

\* The route's validation fails.
RestReject ==
  /\ rpc = "received" /\ Rejection(rq) # Undefined
  /\ rres' = Response(400, Rejection(rq), << >>)
  /\ rpc' = "done"
  /\ UNCHANGED <<pageVars, concVars, uiVars, clientVars, reqVars, httpVars, hpc, turnVars, narrVars,
                 calls, issued, obsVars, rq, rcalled, rreply, rret>>

\* /api/distance: no gateway call.
RestDistance ==
  /\ rpc = "received" /\ rq.ep = "distance" /\ Rejection(rq) = Undefined
  /\ LET q == rq.query
         m == CalculateDistance(ParseFloat(q.lat1), ParseFloat(q.lng1),
                                ParseFloat(q.lat2), ParseFloat(q.lng2))
     IN rres' = Response(200, Undefined,
                         <<[distance_km |-> Num(m), distance_text |-> FormatDistance(m),
                            distance_meters |-> m]>>)
  /\ rpc' = "done"
  /\ UNCHANGED <<pageVars, concVars, uiVars, clientVars, reqVars, httpVars, hpc, turnVars, narrVars,
                 calls, issued, obsVars, rq, rcalled, rreply, rret>>

\* A route calls its gateway function.
RestCall ==
  /\ rpc = "received" /\ rq.ep # "distance" /\ Rejection(rq) = Undefined
  /\ rcalled' = rq.ep
  /\ rpc' = "await"
  /\ UNCHANGED <<pageVars, concVars, uiVars, clientVars, reqVars, httpVars, hpc, turnVars, narrVars,
                 calls, issued, obsVars, rq, rreply, rret, rres>>

\* The provider answers, the gateway function settles and the route
\* responds.
RestReturn ==
  /\ rpc = "await"
  /\ \E reply \in ProviderReplies(rq.ep) :
       /\ rreply' = reply
       /\ rret' = Gateway(rq, reply)
       /\ rres' = RouteResponse(rq, Gateway(rq, reply))
  /\ rpc' = "done"
  /\ UNCHANGED <<pageVars, concVars, uiVars, clientVars, reqVars, httpVars, hpc, turnVars, narrVars,
                 calls, issued, obsVars, rq, rcalled>>

(* ------------------------------------------------------ specification    *)

Next ==
  \/ \E input \in Inputs : SendMessage(input)
  \/ \E body \in ApiBodies : PostChat(body)
  \/ RateLimited
  \/ ChatBadRequest
  \/ ChatNoUser
  \/ ChatStart
  \/ \E reply \in ExtReplies : ExtractResolve(reply)
  \/ ExtractTimeout
  \/ ExtractLate
  \/ \E reply \in SearchReplies : SearchThrows(reply)
  \/ \E reply \in SearchReplies : SearchError(reply)
  \/ \E reply \in SearchReplies : SearchOk(reply)
  \/ \E fs \in FrameLists : NarrFetchOk(fs)
  \/ NarrFetchFail
  \/ NarrAbort
  \/ \E k \in 1..(3 * MaxFrames) : NarrRead(k)
  \/ NarrDone
  \/ NarrReadError
  \/ NarrStall
  \/ ChatFinish
  \/ ChatCatch
  \/ ClientResponseOk
  \/ ClientResponseNotOk
  \/ \E k \in 1..(MaxFrames + 4) : ClientRead(k)
  \/ ClientDone
  \/ RestGet
  \/ RestLimited
  \/ RestReject
  \/ RestDistance
  \/ RestCall
  \/ RestReturn

Spec == Init /\ [][Next]_vars

\* The same system with a narration provider that may also stream
\* JSON-looking prose.
NextAnyProse ==
  \/ Next
  \/ \E fs \in JsonFrameLists : NarrFetchOk(fs)

AnyProseSpec == Init /\ [][NextAnyProse]_vars

\* Every step of the server, of the client and of the collaborators that
\* stays possible is eventually taken.
\* The same turns, with the deadline timer of a race the extractor won.
NextRace == Next \/ DeadlineLate

RaceSpec == Init /\ [][NextRace]_vars

FairSpec == Spec /\ WF_vars(Next)

(* ------------------------------------------ two concurrent chat turns  *)

\* Narration frames per stream when two turns run side by side.
ConcFrames == 1

\* All invocations using the locals of the first.
SlotShared(t) == 1

\* The invocation whose locals the code running for request t reads and
\* writes: its own, since they are declared inside the functions.
Slot(t) == t

\* streamChatWithTools is called for request t.
ConcStart(t) ==
  /\ turns[t].pc = "none"
  /\ \E ms \in {<< >>, <<UserMsg("bar"), AsstMsg("ok")>>} :
       LET last == LastUserMessage(ms)
       IN turns' = [turns EXCEPT ![t] =
            IF last.found
            THEN [@ EXCEPT !.pc = "extract", !.userQuery = last.content]
            ELSE [@ EXCEPT !.pc = "returned",
                           !.calls = <<OnError(Str("No user message found"))>>]]
  /\ UNCHANGED <<pageVars, locals, uiVars, clientVars, reqVars, httpVars, hpc, turnVars, narrVars,
                 calls, issued, obsVars, lookupVars>>

\* Step 1 of request t settles, by the extractor or by the deadline.
ConcExtract(t) ==
  /\ turns[t].pc = "extract"
  /\ \E v \in {RaceValue(turns[t].userQuery,
                           ExtReply("object", "cafe", "Taipei", "cafe in Taipei")),
                 RaceFallback(turns[t].userQuery)} :
       locals' = [locals EXCEPT ![Slot(t)].extracted = v]
  /\ turns' = [turns EXCEPT ![t].pc = "search"]
  /\ UNCHANGED <<pageVars, uiVars, clientVars, reqVars, httpVars, hpc, turnVars, narrVars,
                 calls, issued, obsVars, lookupVars>>

\* Steps 2 and 3 of request t: the search settles.
ConcSearch(t) ==
  /\ turns[t].pc = "search"
  /\ \E reply \in {r \in SearchReplies : r.kind \in {"403", "fail"} \/ r.n = 1} :
       LET r == SearchPlaces(reply)
       IN IF r.threw \/ HasError(r)
          THEN /\ turns' = [turns EXCEPT ![t] =
                    [@ EXCEPT !.pc = IF r.threw THEN "threw" ELSE "returned",
                              !.searchReply = reply,
                              !.calls = Append(@, OnError(Str(r.error)))]]
               /\ UNCHANGED locals
          ELSE /\ locals' = [locals EXCEPT ![Slot(t)].places = r.results]
               /\ turns' = [turns EXCEPT ![t] =
                    [@ EXCEPT !.pc = "narr_fetch",
                              !.searchReply = reply,
                              !.calls = @ \o PlacesCalls(locals'[Slot(t)].places)]]
  /\ UNCHANGED <<pageVars, uiVars, clientVars, reqVars, httpVars, hpc, turnVars, narrVars,
                 calls, issued, obsVars, lookupVars>>

\* The narration fetch of request t resolves with a stream.
ConcFetch(t) ==
  /\ turns[t].pc = "narr_fetch"
  /\ \E fs \in UNION {[1..n -> {"text", "bad"}] : n \in 0..ConcFrames} :
       /\ locals' = [locals EXCEPT ![Slot(t)].frames = fs, ![Slot(t)].rest = Tokens(fs)]
       /\ turns' = [turns EXCEPT ![t].pc = "narr_read", ![t].stream = fs]
  /\ UNCHANGED <<pageVars, uiVars, clientVars, reqVars, httpVars, hpc, turnVars, narrVars,
                 calls, issued, obsVars, lookupVars>>

\* One reader.read() of request t delivering the next k tokens.
ConcRead(t) ==
  /\ turns[t].pc = "narr_read"
  /\ \E k \in 1..Len(locals[Slot(t)].rest) :
       LET l == locals[Slot(t)]
           chunk == SubSeq(l.rest, 1, k)
           ds == ChunkDeltas(l.frames, chunk)
       IN /\ turns' = [turns EXCEPT ![t].calls = @ \o [i \in 1..Len(ds) |-> OnChunk(ds[i])]]
          /\ locals' = [locals EXCEPT ![Slot(t)].rest = SubSeq(l.rest, k + 1, Len(l.rest))]
  /\ UNCHANGED <<pageVars, uiVars, clientVars, reqVars, httpVars, hpc, turnVars, narrVars,
                 calls, issued, obsVars, lookupVars>>

\* The narration of request t is over: the fetch rejects, a read rejects,
\* or the stream is read to its end; then the completion signal.
ConcEnd(t) ==
  /\ \/ turns[t].pc = "narr_fetch"
     \/ turns[t].pc = "narr_read"
  /\ turns' = [turns EXCEPT ![t] =
       [@ EXCEPT !.pc = "returned", !.ended = TRUE, !.calls = @ \o TerminalCalls]]
  /\ UNCHANGED <<pageVars, locals, uiVars, clientVars, reqVars, httpVars, hpc, turnVars, narrVars,
                 calls, issued, obsVars, lookupVars>>

ConcNext ==
  \E t \in ConcTurns :
    \/ ConcStart(t)
    \/ ConcExtract(t)
    \/ ConcSearch(t)
    \/ ConcFetch(t)
    \/ ConcRead(t)
    \/ ConcEnd(t)

ConcSpec == Init /\ [][ConcNext]_vars

(* ------------------------------- streamChat, byte by byte (Header.jsx)   *)

\* What a handler of this protocol can have written when it ends the
\* response: an error line, or the places event (if any), the content
\* deltas and the completion signal; [DONE] closes each.
Wires ==
  {WriteAll(<< >>, cs) \o <<DONE>> :
     cs \in {<<OnError(Str(AuthErrorText))>>, <<OnError(ErrorObj(ProviderFailText))>>}
         \cup {PlacesCalls([i \in 1..m |-> i]) \o [i \in 1..n |-> OnChunk(Str(DeltaText(i)))]
                 \o TerminalCalls : m \in 0..MaxPlaces, n \in 0..MaxFrames}}

\* res.write(`data: ${line}\n\n`) for each line: the body as bytes, each
\* line two halves followed by two newlines.
RECURSIVE BytesFrom(_, _)
BytesFrom(i, n) ==
  IF i > n THEN << >> ELSE <<Tok(i, 1), Tok(i, 2), NL, NL>> \o BytesFrom(i + 1, n)

WireBytes(w) == BytesFrom(1, Len(w))

\* buffer.split('\n'): the pieces between newlines, the last of which is
\* what follows the last newline.
RECURSIVE SplitAll(_, _)
SplitAll(bytes, cur) ==
  IF bytes = << >> THEN <<cur>>
  ELSE IF Head(bytes) = NL THEN <<cur>> \o SplitAll(Tail(bytes), << >>)
  ELSE SplitAll(Tail(bytes), Append(cur, Head(bytes)))

\* A client that keeps nothing from one read to the next.
RemainderDropped(lines) == << >>

\* buffer = lines.pop() || ''
Remainder(lines) == lines[Len(lines)]

\* line.slice(6) of a line that is not blank and starts with 'data: ':
\* the line the server wrote when both its halves are there, text that
\* does not parse when only its first half is.
LineData(w, line) ==
  IF line = << >> \/ line[1].half # 1 THEN [skip |-> TRUE, data |-> Str("")]
  ELSE IF Len(line) = 2 /\ line[2] = Tok(line[1].f, 2)
       THEN [skip |-> FALSE, data |-> w[line[1].f]]
       ELSE [skip |-> FALSE, data |-> Str("<partial>")]

\* The callback calls streamChat makes for the data of one line.
LineCalls(data) ==
  LET p == JSONparse(data)
  IN IF ~p.ok THEN << >>
     ELSE (IF Truthy(p.obj.content) THEN <<OnChunk(Str(p.obj.content))>>
           ELSE IF p.obj.type = "places" THEN <<OnChunk(data)>>
           ELSE << >>)
          \o (IF Truthy(p.obj.error) THEN <<OnError(Str(p.obj.error))>> ELSE << >>)

\* The for loop over the complete lines of one read; [DONE] leaves it.
RECURSIVE CallsOfLines(_, _)
CallsOfLines(w, lines) ==
  IF lines = << >> THEN << >>
  ELSE LET d == LineData(w, Head(lines))
       IN IF d.skip THEN CallsOfLines(w, Tail(lines))
          ELSE IF d.data = DONE THEN << >>
          ELSE LineCalls(d.data) \o CallsOfLines(w, Tail(lines))

\* The response of a chat request, as the handler will have written it.
StreamArrives ==
  /\ cpc = "idle" /\ caller = "none"
  /\ wire' \in Wires
  /\ cpc' = "bytes"
  /\ UNCHANGED <<uiVars, cpos, reqVars, statusCode, headersSent, resEnded, hpc, turnVars,
                 narrVars, calls, issued, obsVars, lookupVars, concVars, pageVars>>

\* One reader.read() of streamChat delivering the next k bytes, for any k
\* up to what is left of the body.
ByteRead ==
  /\ cpc = "bytes"
  /\ \E k \in 1..(Len(WireBytes(wire)) - cpos) :
       LET lines == SplitAll(buffer \o SubSeq(WireBytes(wire), cpos + 1, cpos + k), << >>)
       IN /\ buffer' = Remainder(lines)
          /\ dispatched' = dispatched \o CallsOfLines(wire, SubSeq(lines, 1, Len(lines) - 1))
          /\ cpos' = cpos + k
  /\ UNCHANGED <<uiVars, cpc, reqVars, httpVars, hpc, turnVars, narrVars, calls, issued,
                 obsVars, lookupVars, concVars, inflight, locVars>>

\* reader.read() reports done: streamChat returns.
ByteEnd ==
  /\ cpc = "bytes" /\ cpos = Len(WireBytes(wire))
  /\ cpc' = "done"
  /\ UNCHANGED <<uiVars, cpos, reqVars, httpVars, hpc, turnVars, narrVars, calls, issued,
                 obsVars, lookupVars, concVars, pageVars>>

NextClient == StreamArrives \/ ByteRead \/ ByteEnd

ClientSpec == Init /\ [][NextClient]_vars

(* --------------------------------------------- the page (App, README.md) *)

\* Chat requests and location lookups the page starts in one behaviour.
MaxSends == 2
MaxLookups == 2

\* What getUserLocation resolves with: a position, or null.
Locations == {"25.03,121.56", NoLocation}

\* sendMessage, from the button or the Enter key, with the state of the
\* latest render: it returns at once, or appends the user's message, sets
\* the loading state and starts a chat request.
PageSend(input) ==
  /\ Len(messages) < MaxSends
  /\ IF SendBlocked(Trim(input), isLoading)
     THEN UNCHANGED <<messages, isLoading, isStreaming, error, asstContent, asstPlaces, inflight>>
     ELSE /\ messages' = Append(messages, UserMsg(Trim(input)))
          /\ isLoading' = TRUE /\ isStreaming' = TRUE /\ error' = Undefined
          /\ asstContent' = << >> /\ asstPlaces' = NoData
          /\ inflight' = inflight + 1
  /\ UNCHANGED <<userLocation, clientVars, reqVars, httpVars, hpc, turnVars, narrVars, calls,
                 issued, obsVars, lookupVars, concVars, streamVars, locVars>>

\* A chat request settles: streamChat returned, or it threw and the catch
\* block shows the apology; then the finally block of its sendMessage.
PageSettle(threw) ==
  /\ inflight > 0
  /\ inflight' = inflight - 1
  /\ IF threw
     THEN /\ error' = ApiErrorText(500)
          /\ asstContent' = <<Str("Sorry, I encountered an error: "), Str(ApiErrorText(500))>>
     ELSE UNCHANGED <<error, asstContent>>
  /\ isLoading' = FALSE /\ isStreaming' = FALSE
  /\ UNCHANGED <<messages, asstPlaces, userLocation, clientVars, reqVars,
                 httpVars, hpc, turnVars, narrVars, calls, issued, obsVars, lookupVars,
                 concVars, streamVars, locVars>>

\* The mount effect's 3 s timer fires.
MountTimeout ==
  /\ mountTimer = "armed"
  /\ mountTimer' = "fired"
  /\ IF ~locationFound
     THEN isLoadingLocation' = FALSE /\ locationDenied' = TRUE
     ELSE UNCHANGED <<isLoadingLocation, locationDenied>>
  /\ UNCHANGED <<uiVars, clientVars, reqVars, httpVars, hpc, turnVars, narrVars, calls, issued,
                 obsVars, lookupVars, concVars, streamVars, inflight, locationFound,
                 mountLookup, lookups>>

\* The mount effect's getUserLocation resolves.
MountLookupResolves(location) ==
  /\ mountLookup = "pending"
  /\ mountLookup' = "resolved"
  /\ isLoadingLocation' = FALSE
  /\ IF location # NoLocation
     THEN /\ locationFound' = TRUE
          /\ mountTimer' = (IF mountTimer = "armed" THEN "cleared" ELSE mountTimer)
          /\ userLocation' = location
          /\ UNCHANGED locationDenied
     ELSE /\ locationDenied' = TRUE
          /\ UNCHANGED <<locationFound, mountTimer, userLocation>>
  /\ UNCHANGED <<messages, isLoading, isStreaming, error, asstContent, asstPlaces, clientVars,
                 reqVars, httpVars, hpc, turnVars, narrVars, calls, issued, obsVars,
                 lookupVars, concVars, streamVars, inflight, lookups>>

\* A click on the button of the "Location disabled" banner, which is
\* rendered when locationDenied && !userLocation && !isLoadingLocation:
\* requestLocation up to its await.
RequestLocation ==
  /\ locationDenied /\ userLocation = NoLocation /\ ~isLoadingLocation
  /\ lookups < MaxLookups
  /\ isLoadingLocation' = TRUE /\ locationDenied' = FALSE
  /\ lookups' = lookups + 1
  /\ UNCHANGED <<uiVars, clientVars, reqVars, httpVars, hpc, turnVars, narrVars, calls, issued,
                 obsVars, lookupVars, concVars, streamVars, inflight, locationFound,
                 mountTimer, mountLookup>>

\* The getUserLocation of a requestLocation resolves: the rest of
\* requestLocation.
RequestLocationResolves(location) ==
  /\ lookups > 0
  /\ lookups' = lookups - 1
  /\ isLoadingLocation' = FALSE
  /\ IF location # NoLocation
     THEN userLocation' = location /\ UNCHANGED locationDenied
     ELSE locationDenied' = TRUE /\ UNCHANGED userLocation
  /\ UNCHANGED <<messages, isLoading, isStreaming, error, asstContent, asstPlaces, clientVars,
                 reqVars, httpVars, hpc, turnVars, narrVars, calls, issued, obsVars,
                 lookupVars, concVars, streamVars, inflight, locationFound, mountTimer,
                 mountLookup>>

NextPage ==
  \/ \E input \in Inputs : PageSend(input)
  \/ \E threw \in BOOLEAN : PageSettle(threw)
  \/ MountTimeout
  \/ \E location \in Locations : MountLookupResolves(location)
  \/ RequestLocation
  \/ \E location \in Locations : RequestLocationResolves(location)

PageSpec == Init /\ [][NextPage]_vars

(* ------------------------------------------------------------- claims    *)

IsPlacesCall(c) == c.cb = "chunk" /\ c.arg.k = "json" /\ c.arg.obj.type = "places"
IsEmptyDelta(c) == c.cb = "chunk" /\ c.arg.k = "str" /\ c.arg.s = ""
IsTextDelta(c) == c.cb = "chunk" /\ c.arg.k = "str" /\ c.arg.s # ""
IsErrorCall(c) == c.cb = "error"

PlacesCallAt == {i \in DOMAIN calls : IsPlacesCall(calls[i])}
TextDeltaAt == {i \in DOMAIN calls : IsTextDelta(calls[i])}
EmptyDeltaAt == {i \in DOMAIN calls : IsEmptyDelta(calls[i])}
ErrorCallAt == {i \in DOMAIN calls : IsErrorCall(calls[i])}

\* The search returned without an error (steps 3 to 6 follow).
SearchSucceeded == searchReply.kind \in {"ok", "noresults"}

\* C1: in every turn a places event precedes every content delta, and
\* nothing is emitted after the empty terminal content delta.
C1_PlacesFirstTerminalLast ==
  /\ \A i \in PlacesCallAt : \A j \in DOMAIN calls :
        (calls[j].cb = "chunk" /\ j # i) => i < j
  /\ \A i \in EmptyDeltaAt : i = Len(calls)

C1_Witness ==
  /\ Len(calls) = 4
  /\ IsPlacesCall(calls[1]) /\ IsTextDelta(calls[2]) /\ IsTextDelta(calls[3])
  /\ IsEmptyDelta(calls[4])
  /\ hpc = "done"

\* C2: every turn that passes validation and whose search returns without
\* an error eventually emits the empty terminal content delta.
C2_TerminalEventually == SearchSucceeded ~> (EmptyDeltaAt # {})

\* C3: a turn emits exactly one places event, carrying the full result
\* list, when the search returned one or more places, and none otherwise.
C3_OnePlacesEvent ==
  IF SearchSucceeded /\ Len(places) > 0
  THEN /\ Cardinality(PlacesCallAt) = 1
       /\ \A i \in PlacesCallAt : calls[i].arg.obj.data = places
       /\ Len(places) = Min(searchReply.n, ResultCap)
  ELSE PlacesCallAt = {}

C3_Witness ==
  /\ searchReply = [kind |-> "ok", n |-> 2]
  /\ calls[1] = OnChunk(PlacesEvent(<<1, 2>>))
  /\ pc = "returned"

\* C4: when searchPlaces returns a result carrying an error, the turn's
\* output is exactly one onError call with that text, and no narration
\* call is issued.
C4_SearchErrorOnly ==
  searchReply.kind = "403" =>
    /\ calls = <<OnError(Str(AuthErrorText))>>
    /\ issued = <<"extract", "search">>
    /\ pc = "returned"

C4_Witness == searchReply.kind = "403" /\ hpc = "done"

\* C5: when the search gives one or more places and narration fails
\* before any delta, the turn emits exactly the places event and the
\* terminal delta, never calls onError, and resolves normally.
C5_NarrationFailureSwallowed ==
  (SearchSucceeded /\ Len(places) > 0 /\ narrError # "none" /\ TextDeltaAt = {}) =>
    /\ calls = <<OnChunk(PlacesEvent(places)), OnChunk(Str(""))>>
    /\ pc = "returned"

C5_Witness ==
  /\ narrError = "AbortError" /\ Len(places) = 2
  /\ calls = <<OnChunk(PlacesEvent(places)), OnChunk(Str(""))>>
  /\ hpc = "done" /\ resEnded

\* C6: for every outcome of streamChatWithTools the handler writes a
\* terminal marker and ends the response.
C6_HandlerEndsResponse ==
  (hpc = "done" /\ pc \in {"returned", "threw"}) =>
    /\ resEnded
    /\ wire # << >> /\ wire[Len(wire)] = DONE

\* C7: the error text the orchestrator passes to onError in the search
\* step is written as an {error: text} event and becomes the browser's
\* error state.
C7_SearchErrorReachesUser ==
  (searchReply.kind \in {"403", "fail"} /\ ErrorCallAt # {}) =>
    LET text == calls[CHOOSE i \in ErrorCallAt : TRUE].arg.s
    IN /\ \E j \in DOMAIN wire : wire[j].k = "json" /\ wire[j].obj.error = text
       /\ (caller = "ui" /\ cpos = Len(wire)) => error = text

\* C8: once sendMessage has started a request, the browser returns to the
\* non-loading state.
C8_LoadingEnds == isLoading ~> (~isLoading /\ ~isStreaming)

\* C9: with no user message in the history no output stream is opened:
\* no collaborator is called and nothing is emitted or written.
C9_NoUserNoStream ==
  (hpc \in {"await", "done"} /\ reqBody.isArray
     /\ ~LastUserMessage(reqBody.messages).found) =>
    /\ issued = << >>
    /\ \A i \in DOMAIN calls : calls[i].cb # "chunk"
    /\ wire = << >>
    /\ statusCode \notin 200..299

\* C10 as stated: on every failing reply, a JSON value that is not an
\* object included, the extractor returns exactly its fallback.
C10_FallbackOnEveryNonObject ==
  extReply.kind \in ExtFailKinds \cup {"array"} =>
    ~extRaised /\ extracted = Fallback(userQuery)

\* C10, amended: the extractor never raises; on a transport failure, a
\* non-OK status, empty content, invalid JSON, and the JSON null, number,
\* string or boolean it returns exactly its fallback; on a JSON array it
\* returns the array with query and formatted_query set to the utterance
\* and no location.
C10_FallbackUnlessArray ==
  /\ ~extRaised
  /\ extReply.kind \in ExtFailKinds => extracted = Fallback(userQuery)
  /\ extReply.kind = "array" =>
       extracted = Intent(userQuery, Undefined, userQuery, TRUE)

C10_Witness ==
  /\ extReply.kind = "prim" /\ extracted = Fallback("cafe") /\ pc = "search"

\* C11: when the extractor has not resolved by the deadline, the intent
\* the turn uses is the extractor's own fallback.
C11_TimeoutUsesSameFallback ==
  extState \in {"abandoned", "late"} => extracted = Fallback(userQuery)

\* The places event of step 3, if the turn emitted one, is its first call.
OwnPlacesCalls == IF SearchSucceeded /\ Len(places) > 0 THEN 1 ELSE 0

\* C12: every narration content delta is written as a {content: text}
\* event and appended to the transcript, and only the orchestrator's own
\* places event is forwarded or interpreted as a places payload.
C12_OnlyOwnPlacesStructured ==
  /\ \A i \in DOMAIN calls :
       (i > OwnPlacesCalls /\ calls[i].cb = "chunk") =>
         /\ wire[i].obj.type = Undefined
         /\ wire[i].obj.content # Undefined
  /\ asstPlaces \in {NoData, places}
  /\ (cpc = "done" /\ EmptyDeltaAt # {}) =>
       Len(asstContent) = Len(calls) - OwnPlacesCalls - 1

\* A lookup whose route has answered after its gateway function settled.
Settled(ep) == rq.ep = ep /\ rpc = "done" /\ rcalled # "none"

\* The caller supplied an origin: both userLat and userLng.
OriginSupplied == NumGiven(rq.query, "userLat") /\ NumGiven(rq.query, "userLng")

\* C13: in every place record of searchPlaces and getPlaceDetails the two
\* distance fields are present together, exactly when the provider record
\* has coordinates and an origin was supplied, whatever the coordinates
\* are; a record at the origin has distance 0.
C13_DistanceIffCoordinatesAndOrigin ==
  ((Settled("search") \/ Settled("details")) /\ ~rret.raised) =>
    \A i \in DOMAIN rret.items :
      LET rec == rret.items[i]
          o == UserOrigin(rq.query)
      IN /\ rec.distance_km.has <=> (rec.distance_text # NoRendering)
         /\ rec.distance_km.has <=> (rec.lat.has /\ rec.lng.has /\ OriginSupplied)
         /\ (OriginSupplied /\ rec.lat = o.lat /\ rec.lng = o.lng) =>
              rec.distance_km = Num(0)

\* C14: searchPlaces returns an empty list with an error string on a
\* provider 403 and raises on every other provider failure, and those are
\* its only error outcomes.
C14_SearchDegradesOn403Only ==
  Settled("search") =>
    /\ (rreply.kind = "403") =>
         (~rret.raised /\ rret.items = << >> /\ rret.error = AuthErrorText)
    /\ (rreply.kind \in FailKinds \ {"403"}) =>
         (rret.raised /\ rres.status = 500 /\ rres.items = << >>)
    /\ (rreply.kind \notin FailKinds) => (~rret.raised /\ rret.error = Undefined)

C14_Witness ==
  Settled("search") /\ rreply.kind = "403" /\ rres.status = 200

\* C15, as claimed: getPlaceDetails on a place the provider reports as not
\* found returns a null result and does not raise.
C15_NotFoundIsNull ==
  (Settled("details") /\ rreply.kind = "404") =>
    (~rret.raised /\ rret.items = << >>)

\* C15, amended: getPlaceDetails on a place the provider reports as not
\* found raises "Place not found" (the route answers 500); only an
\* authorization failure is mapped to a null result with an error string.
C15_NotFoundRaises ==
  Settled("details") =>
    /\ (rreply.kind = "404") =>
         (rret.raised /\ rret.error = PlaceNotFoundText /\ rres.status = 500)
    /\ (rreply.kind = "403") =>
         (~rret.raised /\ rret.items = << >> /\ rret.error = KeyIssueText)

C15_Witness ==
  Settled("details") /\ rreply.kind = "404" /\ rres.status = 500

\* C16: geocodeLocation and reverseGeocode never raise; they return null
\* on zero results and on every provider failure, and otherwise the
\* coordinates, or the formatted address, of the first result.
C16_GeocodeNeverRaises ==
  (Settled("geocode") \/ Settled("reverse")) =>
    /\ ~rret.raised
    /\ (rreply.kind \in FailKinds \/ rreply.items = << >>) => rret.items = << >>
    /\ (rreply.kind = "ok" /\ rreply.items # << >>) =>
         rret.items = IF rq.ep = "geocode"
                      THEN <<Place(rreply.items[1].lat, rreply.items[1].lng)>>
                      ELSE <<rreply.items[1].formatted_address>>

C16_Witness ==
  Settled("geocode") /\ rreply.kind = "500" /\ rret.items = << >> /\ rres.status = 404

\* C17: getDirections never raises, and it returns either the texts of the
\* first leg of the first route and no error, or a null result with an
\* error string; the latter when no route is found and on every failure.
C17_DirectionsTwoShapes ==
  Settled("directions") =>
    /\ ~rret.raised
    /\ \/ /\ rret.items # << >> /\ rret.error = Undefined
          /\ rreply.kind = "ok"
          /\ rret.items = <<rreply.items[1].legs[1]>>
       \/ rret.items = << >> /\ Truthy(rret.error)
    /\ (rreply.kind \in FailKinds \/ rreply.items = << >>) => rret.items = << >>

C17_Witness ==
  Settled("directions") /\ rreply.kind = "network" /\ Truthy(rret.error)
  /\ rres.status = 200

\* The caller input errors: a required parameter left out, a travel mode
\* outside the four, a chat body whose messages is not an array.
Missing(names) == \E name \in names : ~Has(rq.query, name)

InputError ==
  \/ rq.ep = "search" /\ Missing({"query"})
  \/ rq.ep = "details" /\ Missing({"placeId"})
  \/ rq.ep = "geocode" /\ Missing({"address"})
  \/ rq.ep = "reverse" /\ Missing({"lat", "lng"})
  \/ rq.ep = "distance" /\ Missing({"lat1", "lng1", "lat2", "lng2"})
  \/ rq.ep = "directions" /\ Missing({"origin", "destination"})
  \/ rq.ep = "directions" /\ Has(rq.query, "mode")
     /\ rq.query.mode \notin {"driving", "walking", "bicycling", "transit"}

\* C18: a request with a caller input error that reaches its route is
\* answered 400 with a description, no gateway or LLM call is ever made for
\* it, and no stream is opened.
C18_InputErrorRejectedFirst ==
  /\ (caller = "rest" /\ InputError) =>
       /\ rcalled = "none"
       /\ (rpc = "done" /\ rres.status # 429) =>
            (rres.status = 400 /\ Truthy(rres.error))
  /\ (caller = "api" /\ ~reqBody.isArray) =>
       /\ issued = << >> /\ calls = << >> /\ wire = << >>
       /\ (hpc = "done" /\ statusCode # 429) => statusCode = 400

C18_Witness ==
  /\ rq.ep = "directions" /\ Has(rq.query, "mode") /\ rq.query.mode = "flying"
  /\ rpc = "done" /\ rres.status = 400 /\ rcalled = "none"

\* The distance asked of /api/distance, in whole metres.
AskedMeters == Abs(ParseFloat(rq.query.lat2) - ParseFloat(rq.query.lat1))

DistanceAnswered == rq.ep = "distance" /\ rpc = "done" /\ rres.status = 200

\* The rendering is within half a unit of its last digit of m metres.
OneDecimalKm(t, m) ==
  /\ t.suffix = "km" /\ Len(t.decimals) = 1
  /\ Abs(1000 * t.whole + 100 * t.decimals[1] - m) <= 50

WholeKm(t, m) ==
  /\ t.suffix = "km" /\ t.decimals = << >>
  /\ Abs(1000 * t.whole - m) <= 500

Examples(t, m) ==
  /\ m = 999 => t = Rendering(999, << >>, "m")
  /\ m = 1000 => t = Rendering(1, <<0>>, "km")
  /\ m = 9999 => t = Rendering(10, <<0>>, "km")
  /\ m = 10001 => t = Rendering(10, << >>, "km")

\* C19, as claimed: below 1 km the metres with suffix m; from 1 km up to
\* 10 km kilometres with one decimal; above 10 km whole kilometres.
C19_ThreeTiersUpTo10 ==
  DistanceAnswered =>
    LET m == AskedMeters
        t == rres.items[1].distance_text
    IN /\ m < 1000 => t = Rendering(m, << >>, "m")
       /\ (1000 <= m /\ m <= 10000) => OneDecimalKm(t, m)
       /\ m > 10000 => WholeKm(t, m)
       /\ Examples(t, m)

\* C19, amended: below 1 km the metres with suffix m; from 1 km up to but
\* not including 10 km kilometres with one decimal; from 10 km on whole
\* kilometres (10000 m gives "10km").
C19_ThreeTiersBelow10 ==
  DistanceAnswered =>
    LET m == AskedMeters
        t == rres.items[1].distance_text
    IN /\ m < 1000 => t = Rendering(m, << >>, "m")
       /\ (1000 <= m /\ m < 10000) => OneDecimalKm(t, m)
       /\ m >= 10000 => WholeKm(t, m)
       /\ Examples(t, m)

C19_Witness ==
  /\ DistanceAnswered /\ AskedMeters = 10000
  /\ rres.items[1].distance_text = Rendering(10, << >>, "km")

\* The ways of reading a sequence of tokens in chunks.
RECURSIVE Chunkings(_)
Chunkings(toks) ==
  IF toks = << >> THEN {<< >>}
  ELSE UNION {{<<SubSeq(toks, 1, k)>> \o c : c \in Chunkings(SubSeq(toks, k + 1, Len(toks)))} :
                k \in 1..Len(toks)}

\* The onChunk calls of a sequence of reads of a stream.
RECURSIVE ReadCalls(_, _)
ReadCalls(fs, reads) ==
  IF reads = << >> THEN << >>
  ELSE LET ds == ChunkDeltas(fs, Head(reads))
       IN [i \in 1..Len(ds) |-> OnChunk(ds[i])] \o ReadCalls(fs, Tail(reads))

\* What a turn run alone can have emitted so far, given its request, what
\* its collaborators answered and how much of the narration stream it has
\* read (the last unread tokens of it).
SoloCalls(tr, unread) ==
  CASE tr.pc \in {"none", "extract", "search"} -> {<< >>}
    [] tr.userQuery = Undefined -> {<<OnError(Str("No user message found"))>>}
    [] OTHER ->
         LET r == SearchPlaces(tr.searchReply)
             toks == Tokens(tr.stream)
         IN IF r.threw \/ HasError(r) THEN {<<OnError(Str(r.error))>>}
            ELSE {PlacesCalls(r.results) \o ReadCalls(tr.stream, reads)
                  \o (IF tr.ended THEN TerminalCalls ELSE << >>) :
                    reads \in Chunkings(SubSeq(toks, 1, Len(toks) - unread))}

\* C20: in every interleaving of two chat turns each turn has emitted what
\* it can have emitted alone with its request and its collaborators'
\* answers, and the locals of its invocation hold what its own
\* collaborators answered.
C20_TurnsIndependent ==
  \A t \in ConcTurns :
    /\ locals[t].frames = turns[t].stream
    /\ Len(locals[t].rest) <= Len(Tokens(turns[t].stream))
    /\ turns[t].calls \in SoloCalls(turns[t], Len(locals[t].rest))
    /\ turns[t].pc \in {"narr_fetch", "narr_read"} =>
         locals[t].places = SearchPlaces(turns[t].searchReply).results

\* Both turns are reading their narrations and have read part of them,
\* one has emitted a delta, and the two streams differ.
C20_Witness ==
  /\ \A t \in ConcTurns :
       /\ turns[t].pc = "narr_read"
       /\ Len(locals[t].rest) < Len(Tokens(turns[t].stream))
  /\ \E i \in DOMAIN turns[1].calls : IsTextDelta(turns[1].calls[i])
  /\ turns[1].calls # turns[2].calls
  /\ turns[1].stream # turns[2].stream

\* C21: the narration abort timer is armed from before the narration call
\* is issued until the narration response has completed (its stream has
\* ended) or failed: while the call is pending or its stream is being
\* read, the timer is armed.
C21_TimerArmedUntilStreamEnds ==
  /\ ("narrate" \in {issued[i] : i \in DOMAIN issued} /\ pc = "narr_fetch") => timerArmed
  /\ pc = "narr_read" => timerArmed

\* The non-empty message.content values of the provider's frames, in order.
RECURSIVE FrameContents(_, _)
FrameContents(fs, i) ==
  IF i > Len(fs) THEN << >>
  ELSE (IF fs[i] = "text" THEN <<Str(DeltaText(i))>> ELSE << >>) \o FrameContents(fs, i + 1)

\* The content deltas forwarded so far, in order.
ForwardedDeltas ==
  LET cs == SelectSeq(calls, IsTextDelta) IN [j \in DOMAIN cs |-> cs[j].arg]

NarrationCompleted ==
  pc = "returned" /\ narrError = "none" /\ "narrate" \in {issued[i] : i \in DOMAIN issued}

\* C22: when narration has completed, the content deltas forwarded are, in
\* order and with none lost or duplicated, the non-empty message.content
\* values of the provider's frames, however the stream was split into
\* transport reads.
C22_DeltasAreFrameContents ==
  NarrationCompleted => ForwardedDeltas = FrameContents(frames, 1)

\* C23: the turn moves from Extract to Search when the first of the
\* extractor's result and the deadline's expiry occurs, and the one that
\* occurs second changes nothing of the turn: not its intent, not the
\* query sent to the places gateway, and it issues no call.
C23_RaceLoserIgnored ==
  [][/\ (extState = "pending" /\ extState' # "pending") =>
          /\ pc = "extract" /\ pc' = "search"
          /\ issued' = Append(issued, "search")
          /\ searchQuery' = extracted'.formatted_query
     /\ (extState \in {"abandoned", "settled"} /\ extState' # extState) =>
          /\ extState' = (IF extState = "abandoned" THEN "late" ELSE "expired")
          /\ extracted' = extracted /\ searchQuery' = searchQuery
          /\ issued' = issued /\ calls' = calls /\ pc' = pc
     /\ Cardinality({i \in DOMAIN issued' : issued'[i] = "search"}) <= 1]_vars

\* The deadline fired first, the search was made with the literal query,
\* and the extractor's result arrived after the turn had gone on.
C23_Witness ==
  /\ extState = "late" /\ extReply = NoReply
  /\ searchQuery = userQuery /\ searchReply.kind = "ok"
  /\ issued = <<"extract", "search", "narrate">>

Issued(name) == name \in {issued[i] : i \in DOMAIN issued}

\* C24: within a turn the external calls are issued in the order intent
\* extraction, place search, narration, at most one of each; the search
\* is issued only once extraction has settled (result or deadline), and
\* narration only once the search has returned and the places event, if
\* there are places, has been emitted.
C24_CallsInOrder ==
  /\ \E n \in 0..3 : issued = SubSeq(<<"extract", "search", "narrate">>, 1, n)
  /\ Issued("search") => extState \in {"settled", "abandoned", "late", "expired"}
  /\ Issued("narrate") =>
       /\ SearchSucceeded
       /\ Len(places) > 0 => (PlacesCallAt = {1} /\ calls[1].arg.obj.data = places)

\* The narration call has just been issued, after the places event.
C24_Witness ==
  /\ issued = <<"extract", "search", "narrate">> /\ pc = "narr_fetch"
  /\ calls = <<OnChunk(PlacesEvent(places))>>

\* Some line that is not JSON precedes the well-formed frame i.
AfterBadLine(i) == \E j \in 1..(i - 1) : frames[j] = "bad"

WholeIn(chunk) ==
  {i \in DOMAIN frames :
     \E a \in 1..(Len(chunk) - 1) : chunk[a] = Tok(i, 1) /\ chunk[a + 1] = Tok(i, 2)}

\* The contents of the text frames of S, in order.
RECURSIVE ContentsIn(_, _)
ContentsIn(S, i) ==
  IF i > Len(frames) THEN << >>
  ELSE (IF i \in S /\ frames[i] = "text" THEN <<OnChunk(Str(DeltaText(i)))>> ELSE << >>)
       \o ContentsIn(S, i + 1)

C26_ErrorExcludesEvents ==
  /\ Cardinality(ErrorCallAt) <= 1
  /\ ErrorCallAt # {} => (PlacesCallAt = {} /\ TextDeltaAt = {} /\ EmptyDeltaAt = {})
  /\ ErrorCallAt # {} => Len(calls) = 1

\* searchPlaces threw: the turn's only callback call is the onError of
\* the outer catch.
C26_Witness ==
  /\ pc = "threw" /\ Issued("search") /\ ~Issued("narrate")
  /\ Len(calls) = 1 /\ IsErrorCall(calls[1])

\* C27: the empty content delta is the end-of-turn marker only: narration
\* never forwards one (frames with empty or missing content are dropped),
\* so a turn emits it at most once, as its last call, and only in the
\* step that ends the turn after narration.
C27_EmptyDeltaOnlyTerminates ==
  [][(EmptyDeltaAt' # EmptyDeltaAt) =>
       /\ EmptyDeltaAt = {} /\ EmptyDeltaAt' = {Len(calls')}
       /\ calls' = Append(calls, OnChunk(Str("")))
       /\ pc \in {"narr_fetch", "narr_read"} /\ pc' = "returned"]_vars

\* A stream with a frame of empty content was read to its end: the only
\* empty delta of the turn is the completion signal.
C27_Witness ==
  /\ NarrationCompleted /\ frames = <<"text", "empty">>
  /\ Len(calls) = 2 /\ IsTextDelta(calls[1]) /\ IsEmptyDelta(calls[2])

\* The lines of the body that are complete among the bytes read so far
\* and precede [DONE].
CompleteLines == {i \in DOMAIN wire : cpos >= 4 * i - 1 /\ \A j \in 1..i : wire[j] # DONE}

RECURSIVE ExpectedCalls(_)
ExpectedCalls(i) ==
  IF i > Len(wire) THEN << >>
  ELSE (IF i \in CompleteLines THEN LineCalls(wire[i]) ELSE << >>) \o ExpectedCalls(i + 1)

\* C28: however the bytes of the body are split into reads, streamChat has
\* dispatched, in order and once each, exactly the complete lines read so
\* far that precede [DONE]: content to onChunk, places to onChunk as
\* JSON text, error to onError.
C28_DispatchIndependentOfReads ==
  cpc \in {"bytes", "done"} => dispatched = ExpectedCalls(1)

\* The places line was dispatched, the first half of the content line
\* that follows is held back until the rest of it arrives.
C28_Witness ==
  /\ cpc = "bytes" /\ buffer = <<Tok(2, 1)>>
  /\ wire[2] = JSONstringify([EmptyObj EXCEPT !.content = DeltaText(1)])
  /\ dispatched = <<OnChunk(PlacesEvent(<<1>>))>>

\* C29: the page has at most one chat request in flight: while a request
\* started by sendMessage has not settled the page is loading, and while
\* it is loading no sendMessage, from the button or the Enter key, starts
\* a request or appends a message.
C29_OneRequestInFlight ==
  [][/\ inflight' <= 1
     /\ inflight' > 0 => isLoading'
     /\ isLoading => (inflight' <= inflight /\ Len(messages') <= Len(messages))]_vars

\* A second request is in flight, started after the first had settled.
C29_Witness == inflight = 1 /\ isLoading /\ Len(messages) = 2

\* C30: while a location request started by requestLocation is in flight
\* the page stays in the location-loading state: isLoadingLocation is
\* true and locationDenied is false until that request resolves.
C30_LoadingWhileRequestInFlight ==
  lookups > 0 => (isLoadingLocation /\ ~locationDenied)

====
